---- MODULE Spec2Model ----
(***************************************************************************)
(* Model of the ctfd_notifier plugin: the Telegram configuration loader,   *)
(* the best-effort sender, the create / update / solve wrappers that are   *)
(* bound over the host challenge class, and the admin configuration form.  *)
(***************************************************************************)
EXTENDS Integers, Sequences, FiniteSets, TLC

VARIABLES cfg, env, appcfg, url_root, session, CHALLENGE_CLASSES, loaded,
          challenge, solves, last

vars == <<cfg, env, appcfg, url_root, session, CHALLENGE_CLASSES, loaded,
          challenge, solves, last>>

(***************************************************************************)
(* Bounds.                                                                 *)
(***************************************************************************)
MaxWrapDepth == 1     \* how many times one method may be re-bound
MaxSolves == 2        \* rows of the Solves table for the challenge

(***************************************************************************)
(* Python values.                                                          *)
(***************************************************************************)
NONE == "<None>"                 \* Python None (for str | None values)
NoExc == "<no exception>"        \* "the call returned normally"
NoThread == -1                   \* payload without message_thread_id

Truthy(v) == v # NONE /\ v # ""  \* bool(v) for a str | None
Or(a, b) == IF Truthy(a) THEN a ELSE b      \* Python  a or b  on str | None

\* bool(t) / "t or d" for a template; <<>> is both None and "".
OrT(t, d) == IF t # <<>> THEN t ELSE d

\* str(x).lower() on the values that occur; None becomes "none".
Lower(s) ==
  CASE s = NONE -> "none"
    [] s = "On" -> "on"
    [] s = "TRUE" -> "true"
    [] s = "False" -> "false"
    [] OTHER -> s

EnabledWords == {"1", "true", "yes", "on"}

\* int(raw) if raw not in (None, "") else None, with ValueError -> None.
\* The result is an integer, -1 standing for None.
ParseInt(raw) ==
  CASE raw = "0" -> 0
    [] raw = "1" -> 1
    [] raw = "2" -> 2
    [] raw = "7" -> 7
    [] OTHER -> -1

\* str(n) for the small integers that occur.
NumStr(n) ==
  CASE n = 0 -> "0" [] n = 1 -> "1" [] n = 2 -> "2" [] n = 3 -> "3"
    [] n = 4 -> "4" [] OTHER -> "many"

\* str.strip() on the form values that occur.
strip(s) ==
  CASE s = " tok " -> "tok"
    [] s = "  " -> ""
    [] s = " 1" -> "1"
    [] OTHER -> s

(***************************************************************************)
(* Templates.  A template is the sequence of its pieces: literal text, a   *)
(* replacement field {name}, or a lone brace (which str.format rejects).   *)
(* The Markdown backquote of the source is written ' here.                 *)
(***************************************************************************)
Lit(s) == [k |-> "lit", v |-> s]
Fld(n) == [k |-> "fld", v |-> n]
Brace == [k |-> "brace", v |-> "{"]

DEFAULT_MESSAGE_TEMPLATE ==
  << Lit("*New challenge created*\nName: '"), Fld("name"),
     Lit("'\nCategory: '"), Fld("category"),
     Lit("'\nValue: '"), Fld("value"), Lit("'") >>

DEFAULT_FIRST_BLOOD_TEMPLATE ==
  << Lit("First Blood!\n"), Fld("user"), Lit(" solved "), Fld("challenge") >>

DEFAULT_SOLVE_TEMPLATE ==
  << Fld("user"), Lit(" solved "), Fld("challenge"), Lit(" ("), Fld("num"),
     Lit(")") >>

\* User-supplied templates used as inputs.
BraceTemplate == << Lit("New: "), Fld("name"), Brace >>           \* ValueError
UnknownFieldTemplate == << Fld("user"), Lit(" got "), Fld("flag") >> \* KeyError
NumTemplate == << Fld("user"), Lit(" is #"), Fld("num") >>
CustomMessageTemplate == << Lit("Released: "), Fld("challenge") >>

\* str.format(**kw): raises on a lone brace or a field kw does not name.
format_ok(t, kw) ==
  \A i \in 1..Len(t) :
     \/ t[i].k = "lit"
     \/ t[i].k = "fld" /\ t[i].v \in DOMAIN kw

format(t, kw) ==
  [i \in 1..Len(t) |-> IF t[i].k = "lit" THEN t[i].v ELSE kw[t[i].v]]

\* str.strip() of a template: whitespace-only literals at the ends go.
IsBlank(p) == p.k = "lit" /\ p.v \in {"", " ", "  "}

RECURSIVE lstripT(_)
lstripT(t) ==
  IF t # <<>> /\ IsBlank(Head(t)) THEN lstripT(Tail(t)) ELSE t

RECURSIVE rstripT(_)
rstripT(t) ==
  IF t # <<>> /\ IsBlank(t[Len(t)]) THEN rstripT(SubSeq(t, 1, Len(t) - 1))
  ELSE t

stripT(t) == rstripT(lstripT(t))

\* url_root.rstrip("/")
rstrip_slash(u) ==
  CASE u = "http://ctf/" -> "http://ctf"
    [] u = "/" -> ""
    [] OTHER -> u

(***************************************************************************)
(* Steps of a request that can fail.  A fault lasts for the whole request: *)
(*   query   - the Solves count query raises                               *)
(*   hookcfg - get_config raises inside a wrapper                          *)
(*   cfgload - get_config raises inside TelegramConfig.from_app            *)
(*   thread  - get_config(thread_config_key) raises                        *)
(*   post    - requests.post raises                                        *)
(*   log     - current_app.logger.warning raises                           *)
(* The first five are steps of one sequential block, which the first       *)
(* exception leaves: a request with several of them failing runs as the    *)
(* request with only the earliest.  So a request has at most one of them,  *)
(* and logging may fail besides.                                           *)
(***************************************************************************)
Faults == {"query", "hookcfg", "cfgload", "thread", "post", "log"}
FaultSets == {F \in SUBSET Faults : Cardinality(F \ {"log"}) <= 1}

\* current_app.logger.warning(...): the exception it raises, if any.
log_warning(c) == IF "log" \in c.faults THEN "LogError" ELSE NoExc

\* try: <stmt> / except Exception: pass
swallow(exc) == NoExc

(***************************************************************************)
(* TelegramConfig                                                          *)
(***************************************************************************)
\* from_app with the environment consulted before the config table.
from_app_env_first(c) ==
  IF "cfgload" \in c.faults
  THEN [raised |-> "ConfigError", enabled |-> FALSE, bot_token |-> NONE,
        chat_id |-> NONE]
  ELSE
    LET enabled_app_cfg == IF c.appcfg.enabled = NONE THEN "False"
                           ELSE c.appcfg.enabled
        enabled_raw == IF c.env.enabled = NONE
                       THEN (IF c.cfg.telegram_enabled # NONE
                             THEN c.cfg.telegram_enabled
                             ELSE enabled_app_cfg)
                       ELSE c.env.enabled
    IN [raised |-> NoExc,
        enabled |-> Lower(enabled_raw) \in EnabledWords,
        bot_token |-> Or(Or(c.env.bot_token, c.cfg.telegram_bot_token),
                         c.appcfg.bot_token),
        chat_id |-> Or(Or(c.env.chat_id, c.cfg.telegram_chat_id),
                       c.appcfg.chat_id)]

from_app(c) ==
  IF "cfgload" \in c.faults
  THEN [raised |-> "ConfigError", enabled |-> FALSE, bot_token |-> NONE,
        chat_id |-> NONE]
  ELSE
    LET enabled_cfg == c.cfg.telegram_enabled
        enabled_env == c.env.enabled
        enabled_app_cfg == IF c.appcfg.enabled = NONE THEN "False"
                           ELSE c.appcfg.enabled
        enabled_raw == IF enabled_cfg = NONE
                       THEN (IF enabled_env # NONE THEN enabled_env
                             ELSE enabled_app_cfg)
                       ELSE enabled_cfg
    IN [raised |-> NoExc,
        enabled |-> Lower(enabled_raw) \in EnabledWords,
        bot_token |-> Or(Or(c.cfg.telegram_bot_token, c.env.bot_token),
                         c.appcfg.bot_token),
        chat_id |-> Or(Or(c.cfg.telegram_chat_id, c.env.chat_id),
                       c.appcfg.chat_id)]

is_valid(conf) == conf.enabled /\ Truthy(conf.bot_token) /\ Truthy(conf.chat_id)

(***************************************************************************)
(* What a call leaves behind: its return value, the exception it raised,   *)
(* and the ordered events it caused (the original method being invoked,    *)
(* a message accepted by the sendMessage API).                             *)
(***************************************************************************)
Post(conf, text, thread_id) ==
  [kind |-> "post", token |-> conf.bot_token, chat_id |-> conf.chat_id,
   text |-> text, thread |-> thread_id]

OrigEvent(method, a) ==
  [kind |-> "orig", token |-> "", chat_id |-> "", text |-> <<method, a>>,
   thread |-> NoThread]

Outcome(result, raised, events) ==
  [result |-> result, raised |-> raised, events |-> events]

\* utils.send_telegram_message(text, thread_config_key=...)
send_telegram_message(text, thread_config_key, c) ==
  LET conf == from_app(c) IN
  IF conf.raised # NoExc THEN Outcome(NONE, conf.raised, <<>>)
  ELSE IF ~is_valid(conf) THEN Outcome(NONE, NoExc, <<>>)
  ELSE
    LET body ==
          IF thread_config_key # NONE /\ "thread" \in c.faults
          THEN Outcome(NONE, "ConfigError", <<>>)
          ELSE
            LET thread_raw == IF thread_config_key # NONE
                              THEN c.cfg[thread_config_key] ELSE NONE
                thread_id == IF thread_raw \in {NONE, ""} THEN NoThread
                             ELSE ParseInt(thread_raw)
            IN IF "post" \in c.faults
               THEN Outcome(NONE, "RequestException", <<>>)
               ELSE Outcome(NONE, NoExc, <<Post(conf, text, thread_id)>>)
    IN IF body.raised = NoExc THEN body
       ELSE Outcome(NONE, swallow(log_warning(c)), body.events)

\* __init__.send_telegram_message(text)
init_send_telegram_message(text, c) ==
  LET conf == from_app(c) IN
  IF conf.raised # NoExc THEN Outcome(NONE, conf.raised, <<>>)
  ELSE IF ~is_valid(conf) THEN Outcome(NONE, NoExc, <<>>)
  ELSE
    LET body == IF "post" \in c.faults
                THEN Outcome(NONE, "RequestException", <<>>)
                ELSE Outcome(NONE, NoExc, <<Post(conf, text, NoThread)>>)
    IN IF body.raised = NoExc THEN body
       ELSE Outcome(NONE, swallow(log_warning(c)), body.events)

(***************************************************************************)
(* The host's challenge class.  A bound method is the function from its    *)
(* arguments to the outcome of calling it; o is what the host's original   *)
(* method does in this request (the value it returns, or that it raises).  *)
(***************************************************************************)
Methods == {"create", "update", "solve", "attempt"}
Users == {"alice", "bob"}
Requests == {"req1", "req2"}

original(method, a, o) ==
  Outcome(IF o.raises THEN NONE ELSE o.result,
          IF o.raises THEN "HostError" ELSE NoExc,
          <<OrigEvent(method, a)>>)

(***************************************************************************)
(* hooks.wrap_solve                                                        *)
(***************************************************************************)
\* The try block of solve_wrapper (hooks.py lines 29-93).
solve_notification(user, c) ==
  IF "query" \in c.faults THEN Outcome(NONE, "QueryError", <<>>)
  ELSE IF "hookcfg" \in c.faults THEN Outcome(NONE, "ConfigError", <<>>)
  ELSE
    LET name == c.challenge.name
        solve_count == c.solve_count
        user_name == user
        max_solves_raw == c.cfg.solve_limit
        max_solves == IF max_solves_raw \in {NONE, ""} THEN -1
                      ELSE ParseInt(max_solves_raw)
        solves_enabled_raw == Or(c.cfg.solves_enabled, "off")
        solves_enabled == Lower(solves_enabled_raw) \in EnabledWords
        first_kw == [user |-> user_name, challenge |-> name]
        first_template == OrT(c.cfg.solve_first_blood_template,
                              DEFAULT_FIRST_BLOOD_TEMPLATE)
        kw == [user |-> user_name, challenge |-> name,
               num |-> NumStr(solve_count)]
        template == OrT(c.cfg.solve_template, DEFAULT_SOLVE_TEMPLATE)
        text == IF solve_count = 1
                THEN (IF format_ok(first_template, first_kw)
                      THEN format(first_template, first_kw)
                      ELSE format(DEFAULT_FIRST_BLOOD_TEMPLATE, first_kw))
                ELSE (IF format_ok(template, kw)
                      THEN format(template, kw)
                      ELSE format(DEFAULT_SOLVE_TEMPLATE, kw))
        root == rstrip_slash(c.url_root)
        full == IF root # ""
                THEN text \o <<"\n\nChallenge: ", root, "/challenges#", name,
                               "-", c.challenge.id>>
                ELSE text
    IN IF max_solves # -1 /\ solve_count > max_solves
       THEN Outcome(NONE, NoExc, <<>>)
       ELSE IF ~solves_enabled THEN Outcome(NONE, NoExc, <<>>)
       ELSE send_telegram_message(full, "solve_thread_id", c)

\* solve_wrapper sending the notification before it calls the original.
solve_wrapper_notify_first(func, user, c) ==
  LET n == solve_notification(user, c)
      inner == func[user]
  IN IF inner.raised # NoExc
     THEN Outcome(inner.result, inner.raised, n.events \o inner.events)
     ELSE Outcome(inner.result, swallow(n.raised), n.events \o inner.events)

solve_wrapper(func, user, c) ==
  LET inner == func[user] IN
  IF inner.raised # NoExc THEN inner
  ELSE LET n == solve_notification(user, c)
       IN Outcome(inner.result, swallow(n.raised), inner.events \o n.events)

(***************************************************************************)
(* hooks._wrap_challenge_update                                            *)
(***************************************************************************)
\* The outer try block of wrapper (hooks.py lines 134-169).
update_notification(c) ==
  IF "hookcfg" \in c.faults THEN Outcome(NONE, "ConfigError", <<>>)
  ELSE
    LET name == c.challenge.name
        category == c.challenge.category
        value == c.challenge.value
        template == OrT(c.cfg.message_template, DEFAULT_MESSAGE_TEMPLATE)
        safe_value == IF value # NONE THEN value ELSE ""
        kw == [name |-> name, challenge |-> name, category |-> category,
               value |-> safe_value]
        fmt_err == ~format_ok(template, kw)
        text == IF fmt_err THEN format(DEFAULT_MESSAGE_TEMPLATE, kw)
                ELSE format(template, kw)
        root == rstrip_slash(c.url_root)
        full == IF root # ""
                THEN text \o <<"\n\nAdmin: ", root, "/admin/challenges">>
                ELSE text
    IN IF fmt_err /\ log_warning(c) # NoExc
       THEN Outcome(NONE, log_warning(c), <<>>)
       ELSE send_telegram_message(full, "challenge_thread_id", c)

\* update_wrapper without the except clause around the notification.
update_wrapper_no_except(func, request, c) ==
  LET old_state == c.old_state
      inner == func[request]
      new_state == c.new_state
  IN IF inner.raised # NoExc THEN inner
     ELSE IF old_state # "visible" /\ new_state = "visible"
     THEN LET n == update_notification(c)
          IN Outcome(inner.result, n.raised, inner.events \o n.events)
     ELSE Outcome(inner.result, NoExc, inner.events)

\* update_wrapper that forgets to compare with the state read before.
update_wrapper_any_visible(func, request, c) ==
  LET inner == func[request]
      new_state == c.new_state
  IN IF inner.raised # NoExc THEN inner
     ELSE IF new_state = "visible"
     THEN LET n == update_notification(c)
              handled == IF n.raised = NoExc THEN NoExc
                         ELSE swallow(log_warning(c))
          IN Outcome(inner.result, handled, inner.events \o n.events)
     ELSE Outcome(inner.result, NoExc, inner.events)

update_wrapper(func, request, c) ==
  LET old_state == c.old_state
      inner == func[request]
      new_state == c.new_state
  IN IF inner.raised # NoExc THEN inner
     ELSE IF old_state # "visible" /\ new_state = "visible"
     THEN LET n == update_notification(c)
              handled == IF n.raised = NoExc THEN NoExc
                         ELSE swallow(log_warning(c))
          IN Outcome(inner.result, handled, inner.events \o n.events)
     ELSE Outcome(inner.result, NoExc, inner.events)

(***************************************************************************)
(* __init__.notify_on_challenge_create (message_builder=None, as load()    *)
(* applies it)                                                             *)
(***************************************************************************)
\* The try block of wrapper (__init__.py lines 162-184); created is the
\* challenge the original create() returned.
create_notification(created, c) ==
  LET name == created.name
      category == created.category
      value == created.value
      root == rstrip_slash(c.url_root)
      head == <<"*New challenge created*\n", "Name: '", name, "'\n",
                "Category: '", category, "'\n">>
      withValue == IF value # NONE
                   THEN head \o <<"Value: '", value, "'\n">> ELSE head
      text == IF root # ""
              THEN withValue \o <<"\nAdmin: ", root, "/admin/challenges">>
              ELSE withValue
  IN init_send_telegram_message(text, c)

create_wrapper(func, request, c) ==
  LET inner == func[request] IN
  IF inner.raised # NoExc THEN inner
  ELSE LET n == create_notification(c.created, c)
           handled == IF n.raised = NoExc THEN NoExc
                      ELSE swallow(log_warning(c))
       IN Outcome(inner.result, handled, inner.events \o n.events)

(***************************************************************************)
(* The method bound on the class after d re-bindings.                      *)
(***************************************************************************)
RECURSIVE bound_solve(_, _, _)
bound_solve(d, o, c) ==
  IF d = 0 THEN [u \in Users |-> original("solve", u, o)]
  ELSE [u \in Users |-> solve_wrapper(bound_solve(d - 1, o, c), u, c)]

RECURSIVE bound_update(_, _, _)
bound_update(d, o, c) ==
  IF d = 0 THEN [r \in Requests |-> original("update", r, o)]
  ELSE [r \in Requests |-> update_wrapper(bound_update(d - 1, o, c), r, c)]

RECURSIVE bound_create(_, _, _)
bound_create(d, o, c) ==
  IF d = 0 THEN [r \in Requests |-> original("create", r, o)]
  ELSE [r \in Requests |-> create_wrapper(bound_create(d - 1, o, c), r, c)]

(***************************************************************************)
(* Admin form  /admin/ctfd_notifier                                        *)
(***************************************************************************)
\* request.form.get(field, default) / session.get("nonce", "")
form_get(form, field, default) ==
  IF form[field] = NONE THEN default ELSE form[field]

redirect(endpoint) == [status |-> 302, location |-> endpoint, view |-> <<>>]
render_template(view) == [status |-> 200, location |-> "", view |-> view]

\* config_view that compares the nonces without rejecting an empty one.
config_view_empty_nonce(method, form, nonce, table) ==
  LET form_nonce == form_get(form, "nonce", "")
      session_nonce == IF nonce = NONE THEN "" ELSE nonce
  IN IF method = "POST" /\ form_nonce = session_nonce
     THEN [cfg |-> [table EXCEPT
                      !.telegram_enabled = form_get(form, "enabled", "off")],
           response |-> redirect("ctfd_notifier_admin.config_view")]
     ELSE [cfg |-> table, response |-> redirect("admin.view_settings")]

\* routes.config_view: the table and the response it leaves.
config_view(method, form, nonce, table) ==
  IF method = "POST"
  THEN
    LET form_nonce == form_get(form, "nonce", "")
        session_nonce == IF nonce = NONE THEN "" ELSE nonce
    IN IF form_nonce = "" \/ form_nonce # session_nonce
       THEN [cfg |-> table, response |-> redirect("admin.view_settings")]
       ELSE
         [cfg |->
            [telegram_enabled |-> form_get(form, "enabled", "off"),
             challenge_enabled |-> form_get(form, "enable_challenge", "off"),
             solves_enabled |-> form_get(form, "enable_solves", "off"),
             telegram_bot_token |-> strip(form_get(form, "bot_token", "")),
             telegram_chat_id |-> strip(form_get(form, "chat_id", "")),
             message_template |-> OrT(stripT(form.message_template),
                                      DEFAULT_MESSAGE_TEMPLATE),
             solve_template |-> stripT(form.solve_template),
             solve_first_blood_template |->
                stripT(form.first_blood_template),
             solve_limit |-> strip(form_get(form, "solve_limit", "")),
             challenge_thread_id |->
                strip(form_get(form, "challenge_thread_id", "")),
             solve_thread_id |->
                strip(form_get(form, "solve_thread_id", ""))],
          response |-> redirect("ctfd_notifier_admin.config_view")]
  ELSE
    [cfg |-> table,
     response |-> render_template(
       [enabled |-> Lower(Or(table.telegram_enabled, "off"))
                      \in EnabledWords,
        challenge_enabled |-> Lower(Or(table.challenge_enabled, "off"))
                      \in EnabledWords,
        solves_enabled |-> Lower(Or(table.solves_enabled, "off"))
                      \in EnabledWords,
        bot_token |-> Or(table.telegram_bot_token, ""),
        chat_id |-> Or(table.telegram_chat_id, ""),
        message_template |-> OrT(table.message_template,
                                 DEFAULT_MESSAGE_TEMPLATE),
        solve_template |-> OrT(table.solve_template, DEFAULT_SOLVE_TEMPLATE),
        first_blood_template |-> OrT(table.solve_first_blood_template,
                                     DEFAULT_FIRST_BLOOD_TEMPLATE),
        solve_limit |-> Or(table.solve_limit, ""),
        challenge_thread_id |-> Or(table.challenge_thread_id, ""),
        solve_thread_id |-> Or(table.solve_thread_id, ""),
        nonce |-> IF nonce = NONE THEN "" ELSE nonce])]

\* __init__.config_view: the older form with the three Telegram keys.
init_config_view(method, form, nonce, table) ==
  IF method = "POST"
  THEN
    LET form_nonce == form_get(form, "nonce", "")
        session_nonce == IF nonce = NONE THEN "" ELSE nonce
    IN IF form_nonce = "" \/ form_nonce # session_nonce
       THEN [cfg |-> table, response |-> redirect("admin.view_settings")]
       ELSE
         [cfg |->
            [table EXCEPT
               !.telegram_enabled = form_get(form, "enabled", "off"),
               !.telegram_bot_token = strip(form_get(form, "bot_token", "")),
               !.telegram_chat_id = strip(form_get(form, "chat_id", ""))],
          response |-> redirect("ctfd_notifier_admin.config_view")]
  ELSE
    [cfg |-> table,
     response |-> render_template(
       [enabled |-> Lower(Or(table.telegram_enabled, "off"))
                      \in EnabledWords,
        bot_token |-> Or(table.telegram_bot_token, ""),
        chat_id |-> Or(table.telegram_chat_id, ""),
        nonce |-> IF nonce = NONE THEN "" ELSE nonce])]

(***************************************************************************)
(* State.                                                                  *)
(*   cfg      - the ctfd_notifier_* keys of the CTFd config table          *)
(*   env      - the CTFD_NOTIFIER_TELEGRAM_* environment variables         *)
(*   appcfg   - the CTFD_NOTIFIER_TELEGRAM_* keys of app.config            *)
(*   url_root - app.config["URL_ROOT"]                                     *)
(*   session  - session["nonce"]                                           *)
(*   CHALLENGE_CLASSES - per challenge type and method, how many wrappers  *)
(*              are bound over the host's original method                  *)
(*   loaded   - load(app) has run (the admin blueprint is registered)      *)
(*   challenge, solves - the challenge row and its number of Solves rows   *)
(*   last     - the operation in progress: its inputs and what it left     *)
(*              behind; op = "none" between operations                     *)
(***************************************************************************)
EmptyConfig ==
  [telegram_enabled |-> NONE, challenge_enabled |-> NONE,
   solves_enabled |-> NONE, telegram_bot_token |-> NONE,
   telegram_chat_id |-> NONE, message_template |-> <<>>,
   solve_template |-> <<>>, solve_first_blood_template |-> <<>>,
   solve_limit |-> NONE, challenge_thread_id |-> NONE,
   solve_thread_id |-> NONE]

NoSource == [enabled |-> NONE, bot_token |-> NONE, chat_id |-> NONE]

States == {"hidden", "visible"}
Results == {"ret1", "ret2"}
Origs == {[raises |-> TRUE, result |-> NONE]}
           \cup [raises : {FALSE}, result : Results]

\* The challenge object the original create() returned as `result`.
Created(result) ==
  IF result = "ret1"
  THEN [name |-> "web1", category |-> "web", value |-> "50"]
  ELSE [name |-> "misc1", category |-> "misc", value |-> NONE]

Idle == [op |-> "none", arg |-> NONE, faults |-> {},
         orig |-> [raises |-> FALSE, result |-> "ret1"],
         old_state |-> NONE, new_state |-> NONE, depth |-> 0,
         solve_count |-> 0, out |-> Outcome(NONE, NoExc, <<>>)]

Ctx(F, chal, count, old, new, o) ==
  [cfg |-> cfg, env |-> env, appcfg |-> appcfg, url_root |-> url_root,
   faults |-> F, challenge |-> chal, solve_count |-> count,
   old_state |-> old, new_state |-> new, created |-> Created(o.result)]

TheChallenge ==
  [name |-> "pwn1", category |-> "pwn", value |-> "100", id |-> "1",
   state |-> "hidden"]

Init ==
  /\ cfg = EmptyConfig
  /\ env = NoSource
  /\ appcfg = NoSource
  /\ url_root \in {"", "http://ctf/"}
  /\ session = "n1"
  /\ CHALLENGE_CLASSES = [t \in {"standard"} |-> [m \in Methods |-> 0]]
  /\ loaded = FALSE
  /\ challenge = TheChallenge
  /\ solves = 0
  /\ last = Idle

\* The host has taken the result of the operation.
Done ==
  /\ last.op # "none"
  /\ last' = Idle
  /\ UNCHANGED <<cfg, env, appcfg, url_root, session, CHALLENGE_CLASSES,
                 loaded, challenge, solves>>

(***************************************************************************)
(* Plugin load and the re-binding helpers.                                 *)
(***************************************************************************)
\* setattr(cls, method, wrapped) on a registered challenge type.
rebind(classes, type_id, method) ==
  [classes EXCEPT ![type_id][method] = @ + 1]

\* __init__._wrap_standard_challenge_create(app)
wrap_standard_challenge_create(classes) ==
  IF "standard" \notin DOMAIN classes THEN classes
  ELSE rebind(classes, "standard", "create")

\* hooks._wrap_challenge_update(app, type_id)
wrap_challenge_update(classes, type_id) ==
  IF type_id \notin DOMAIN classes THEN classes
  ELSE rebind(classes, type_id, "update")

\* hooks.wrap_solve(cls)
wrap_solve(classes, type_id) == rebind(classes, type_id, "solve")

\* __init__.load(app)
load ==
  /\ last.op = "none"
  /\ CHALLENGE_CLASSES["standard"]["create"] < MaxWrapDepth
  /\ CHALLENGE_CLASSES' = wrap_standard_challenge_create(CHALLENGE_CLASSES)
  /\ loaded' = TRUE
  /\ last' = [Idle EXCEPT !.op = "load"]
  /\ UNCHANGED <<cfg, env, appcfg, url_root, session, challenge, solves>>

wrap_standard_challenge_update ==
  /\ last.op = "none"
  /\ CHALLENGE_CLASSES["standard"]["update"] < MaxWrapDepth
  /\ CHALLENGE_CLASSES' = wrap_challenge_update(CHALLENGE_CLASSES, "standard")
  /\ last' = [Idle EXCEPT !.op = "wrap_update", !.arg = "standard"]
  /\ UNCHANGED <<cfg, env, appcfg, url_root, session, loaded, challenge,
                 solves>>

wrap_dynamic_challenge_update ==
  /\ last.op = "none"
  /\ CHALLENGE_CLASSES' = wrap_challenge_update(CHALLENGE_CLASSES, "dynamic")
  /\ last' = [Idle EXCEPT !.op = "wrap_update", !.arg = "dynamic"]
  /\ UNCHANGED <<cfg, env, appcfg, url_root, session, loaded, challenge,
                 solves>>

WrapSolve ==
  /\ last.op = "none"
  /\ CHALLENGE_CLASSES["standard"]["solve"] < MaxWrapDepth
  /\ CHALLENGE_CLASSES' = wrap_solve(CHALLENGE_CLASSES, "standard")
  /\ last' = [Idle EXCEPT !.op = "wrap_solve", !.arg = "standard"]
  /\ UNCHANGED <<cfg, env, appcfg, url_root, session, loaded, challenge,
                 solves>>

(***************************************************************************)
(* The host calls the methods bound on the standard challenge class.       *)
(***************************************************************************)
CallRecord(op, a, F, o, old, new, d, count, out) ==
  [op |-> op, arg |-> a, faults |-> F, orig |-> o, old_state |-> old,
   new_state |-> new, depth |-> d, solve_count |-> count, out |-> out]

CallCreate ==
  \E r \in {"req1"}, o \in Origs, F \in FaultSets :
    LET d == CHALLENGE_CLASSES["standard"]["create"]
        c == Ctx(F, challenge, solves, challenge.state, challenge.state, o)
    IN /\ last.op = "none"
       /\ last' = CallRecord("create", r, F, o, challenge.state,
                             challenge.state, d, solves,
                             bound_create(d, o, c)[r])
       /\ UNCHANGED <<cfg, env, appcfg, url_root, session, CHALLENGE_CLASSES,
                      loaded, challenge, solves>>

CallUpdate ==
  \E r \in {"req1"}, o \in Origs, ns \in States, F \in FaultSets :
    LET d == CHALLENGE_CLASSES["standard"]["update"]
        new == IF o.raises THEN challenge.state ELSE ns
        after == [challenge EXCEPT !.state = new]
        c == Ctx(F, after, solves, challenge.state, new, o)
    IN /\ last.op = "none"
       /\ challenge' = after
       /\ last' = CallRecord("update", r, F, o, challenge.state, new, d,
                             solves, bound_update(d, o, c)[r])
       /\ UNCHANGED <<cfg, env, appcfg, url_root, session, CHALLENGE_CLASSES,
                      loaded, solves>>

CallSolve ==
  \E u \in Users, o \in Origs, F \in FaultSets :
    LET d == CHALLENGE_CLASSES["standard"]["solve"]
        count == IF o.raises THEN solves ELSE solves + 1
        c == Ctx(F, challenge, count, challenge.state, challenge.state, o)
    IN /\ last.op = "none"
       /\ solves < MaxSolves
       /\ solves' = count
       /\ last' = CallRecord("solve", u, F, o, challenge.state,
                             challenge.state, d, count,
                             bound_solve(d, o, c)[u])
       /\ UNCHANGED <<cfg, env, appcfg, url_root, session, CHALLENGE_CLASSES,
                      loaded, challenge>>

\* Another plugin calls the sender directly.
ThreadKeys == {NONE, "challenge_thread_id", "solve_thread_id"}

CallSend ==
  \E key \in ThreadKeys, F \in FaultSets :
    LET c == Ctx(F, challenge, solves, challenge.state, challenge.state,
                 Idle.orig)
    IN /\ last.op = "none"
       /\ last' = CallRecord("send", key, F, Idle.orig, challenge.state,
                             challenge.state, 0, solves,
                             send_telegram_message(<<"hello">>, key, c))
       /\ UNCHANGED <<cfg, env, appcfg, url_root, session, CHALLENGE_CLASSES,
                      loaded, challenge, solves>>

CallInitSend ==
  \E F \in FaultSets :
    LET c == Ctx(F, challenge, solves, challenge.state, challenge.state,
                 Idle.orig)
    IN /\ last.op = "none"
       /\ last' = CallRecord("init_send", NONE, F, Idle.orig, challenge.state,
                             challenge.state, 0, solves,
                             init_send_telegram_message(<<"hello">>, c))
       /\ UNCHANGED <<cfg, env, appcfg, url_root, session, CHALLENGE_CLASSES,
                      loaded, challenge, solves>>

(***************************************************************************)
(* Requests to the admin form.                                             *)
(***************************************************************************)
Nonces == {NONE, "", "n1", "n2"}

\* The forms an admin submits while the hooks are exercised: the form that
\* enables everything with the built-in templates, the forms that differ
\* from it in one field, and the form whose templates are all malformed.
BaseForm ==
  [nonce |-> "n1", enabled |-> "on", enable_challenge |-> NONE,
   enable_solves |-> "on", bot_token |-> " tok ", chat_id |-> "42",
   message_template |-> <<>>, solve_template |-> <<>>,
   first_blood_template |-> <<>>, solve_limit |-> "",
   challenge_thread_id |-> "7", solve_thread_id |-> "x"]

HookForms ==
  { BaseForm,
    [BaseForm EXCEPT !.enabled = NONE],
    [BaseForm EXCEPT !.enable_solves = NONE],
    [BaseForm EXCEPT !.bot_token = "  "],
    [BaseForm EXCEPT !.message_template = BraceTemplate],
    [BaseForm EXCEPT !.message_template = CustomMessageTemplate],
    [BaseForm EXCEPT !.solve_template = UnknownFieldTemplate],
    [BaseForm EXCEPT !.first_blood_template = NumTemplate],
    [BaseForm EXCEPT !.solve_limit = " 1"],
    [BaseForm EXCEPT !.message_template = BraceTemplate,
                     !.solve_template = UnknownFieldTemplate,
                     !.first_blood_template = NumTemplate],
    [BaseForm EXCEPT !.nonce = "n2", !.enabled = NONE] }

\* The forms of the admin specification: every field varies.
AdminForms ==
  [nonce : Nonces, enabled : {NONE, "on"}, enable_challenge : {NONE, "on"},
   enable_solves : {"on"}, bot_token : {NONE, " tok "}, chat_id : {"42"},
   message_template : {<<>>, BraceTemplate},
   solve_template : {<<Lit(" ")>>, NumTemplate},
   first_blood_template : {NumTemplate},
   solve_limit : {"  ", " 1"}, challenge_thread_id : {"7"},
   solve_thread_id : {"x"}]

AdminRequest(op, method, form, r) ==
  /\ last.op = "none"
  /\ cfg' = r.cfg
  /\ last' = [Idle EXCEPT !.op = op, !.arg = [method |-> method, form |-> form],
                          !.out = r.response]
  /\ UNCHANGED <<env, appcfg, url_root, session, CHALLENGE_CLASSES, loaded,
                 challenge, solves>>

ConfigViewPost(Forms) ==
  \E form \in Forms :
    AdminRequest("config_view", "POST", form,
                 config_view("POST", form, session, cfg))

ConfigViewGet(Forms) ==
  \E form \in {f \in Forms : f.nonce = NONE} :
    AdminRequest("config_view", "GET", form,
                 config_view("GET", form, session, cfg))

InitConfigViewPost(Forms) ==
  \E form \in Forms :
    AdminRequest("init_config_view", "POST", form,
                 init_config_view("POST", form, session, cfg))

InitConfigViewGet(Forms) ==
  \E form \in {f \in Forms : f.nonce = NONE} :
    AdminRequest("init_config_view", "GET", form,
                 init_config_view("GET", form, session, cfg))

HookConfigViewPost == ConfigViewPost(HookForms)

Next ==
  \/ load
  \/ wrap_standard_challenge_update
  \/ wrap_dynamic_challenge_update
  \/ WrapSolve
  \/ CallCreate
  \/ CallUpdate
  \/ CallSolve
  \/ CallSend
  \/ CallInitSend
  \/ HookConfigViewPost
  \/ Done

Spec == Init /\ [][Next]_vars

(***************************************************************************)
(* The admin form on its own.                                              *)
(***************************************************************************)
InitAdmin ==
  /\ cfg = EmptyConfig
  /\ env = NoSource
  /\ appcfg = NoSource
  /\ url_root = ""
  /\ session \in {NONE, "n1"}
  /\ CHALLENGE_CLASSES = [t \in {"standard"} |-> [m \in Methods |-> 0]]
  /\ loaded = TRUE
  /\ challenge = TheChallenge
  /\ solves = 0
  /\ last = Idle

AdminConfigViewPost == ConfigViewPost(AdminForms)
AdminConfigViewGet == ConfigViewGet(AdminForms)
AdminInitConfigViewPost == InitConfigViewPost(AdminForms)
AdminInitConfigViewGet == InitConfigViewGet(AdminForms)

NextAdmin ==
  \/ AdminConfigViewPost
  \/ AdminConfigViewGet
  \/ AdminInitConfigViewPost
  \/ AdminInitConfigViewGet
  \/ Done

SpecAdmin == InitAdmin /\ [][NextAdmin]_vars

(***************************************************************************)
(* TelegramConfig.from_app on its own: the three sources are drawn from    *)
(* the values each can hold (an unset key, an empty string, a value).      *)
(***************************************************************************)
InitConfig ==
  /\ cfg \in {[EmptyConfig EXCEPT !.telegram_enabled = e,
                                  !.telegram_bot_token = t,
                                  !.telegram_chat_id = ch] :
                e \in {NONE, "on", "off"}, t \in {NONE, "", "tok"},
                ch \in {NONE, "42"}}
  /\ env \in [enabled : {NONE, "", "TRUE"}, bot_token : {NONE, "", "envtok"},
              chat_id : {NONE, "env42"}]
  /\ appcfg \in [enabled : {NONE, "yes"}, bot_token : {NONE, "apptok"},
                 chat_id : {NONE, "", "app42"}]
  /\ url_root = ""
  /\ session = NONE
  /\ CHALLENGE_CLASSES = [t \in {"standard"} |-> [m \in Methods |-> 0]]
  /\ loaded = TRUE
  /\ challenge = TheChallenge
  /\ solves = 0
  /\ last = Idle

LoadTelegramConfig ==
  \E F \in {{}, {"cfgload"}} :
    LET c == Ctx(F, challenge, solves, challenge.state, challenge.state,
                 Idle.orig)
    IN /\ last.op = "none"
       /\ last' = CallRecord("from_app", NONE, F, Idle.orig, challenge.state,
                             challenge.state, 0, solves, from_app(c))
       /\ UNCHANGED <<cfg, env, appcfg, url_root, session, CHALLENGE_CLASSES,
                      loaded, challenge, solves>>

NextConfig ==
  \/ LoadTelegramConfig
  \/ Done

SpecConfig == InitConfig /\ [][NextConfig]_vars

(***************************************************************************)
(* Properties.                                                             *)
(***************************************************************************)
IsPost(e) == e.kind = "post"
IsOrig(e) == e.kind = "orig"
NumPosts == Len(SelectSeq(last.out.events, IsPost))
NumOrig == Len(SelectSeq(last.out.events, IsOrig))

\* The Telegram configuration, loaded now without a fault, is valid.
ValidNow ==
  is_valid(from_app([cfg |-> cfg, env |-> env, appcfg |-> appcfg,
                     faults |-> {}]))

BecameVisible == last.old_state # "visible" /\ last.new_state = "visible"

SolveNotificationsOn ==
  /\ Lower(Or(cfg.solves_enabled, "off")) \in EnabledWords
  /\ \/ cfg.solve_limit \in {NONE, ""}
     \/ ParseInt(cfg.solve_limit) = -1
     \/ last.solve_count <= ParseInt(cfg.solve_limit)

\* A template str.format rejects when given exactly these keyword fields.
Malformed(t, fields) ==
  \E i \in 1..Len(t) :
     \/ t[i].k = "brace"
     \/ t[i].k = "fld" /\ t[i].v \notin fields

\* The context of the last call, with every template left at its default.
DefaultsCtx ==
  [Ctx(last.faults, challenge, last.solve_count, last.old_state,
       last.new_state, last.orig)
     EXCEPT !.cfg = [cfg EXCEPT !.message_template = <<>>,
                                !.solve_template = <<>>,
                                !.solve_first_blood_template = <<>>]]

\* C1: once load(app) has run and the Telegram configuration is valid, a
\* challenge creation and a challenge solve each cause a message to be
\* posted to sendMessage (nothing fails, the original method returns, and
\* solve notifications are switched on and within their limit).
C1_LoadInterceptsBothEvents ==
  (loaded /\ ValidNow /\ last.faults = {} /\ ~last.orig.raises) =>
     /\ last.op = "create" => NumPosts >= 1
     /\ (last.op = "solve" /\ SolveNotificationsOn) => NumPosts >= 1

\* C2: a call whose user-supplied template is malformed leaves exactly the
\* messages the same call leaves with the built-in default template: the
\* notification is sent, rendered from the default with the same fields.
C2_MalformedTemplateFallsBack ==
  /\ ( /\ last.op = "update" /\ last.depth >= 1
       /\ Malformed(cfg.message_template,
                    {"name", "challenge", "category", "value"}) )
     => last.out.events =
          bound_update(last.depth, last.orig, DefaultsCtx)[last.arg].events
  /\ ( /\ last.op = "solve" /\ last.depth >= 1
       /\ IF last.solve_count = 1
          THEN Malformed(cfg.solve_first_blood_template,
                         {"user", "challenge"})
          ELSE Malformed(cfg.solve_template, {"user", "challenge", "num"}) )
     => last.out.events =
          bound_solve(last.depth, last.orig, DefaultsCtx)[last.arg].events

\* C3: send_telegram_message never raises to its caller, whichever step
\* fails.
C3_SendNeverRaises ==
  last.op \in {"send", "init_send"} => last.out.raised = NoExc

\* C4: whatever notification step fails, the wrapped create, update and
\* solve return exactly what the original returned and raise exactly what
\* the original raised.
C4_WrapperKeepsHostResult ==
  last.op \in {"create", "update", "solve"} =>
     /\ last.out.result = (IF last.orig.raises THEN NONE ELSE last.orig.result)
     /\ last.out.raised = (IF last.orig.raises THEN "HostError" ELSE NoExc)

\* A wrapped update whose notification fails twice over (the config load
\* and the logging of that failure) and still returns the host's value.
C4_Witness ==
  /\ last.op = "update" /\ last.depth >= 1 /\ BecameVisible
  /\ last.faults = {"cfgload", "log"}
  /\ last.out.result = "ret2" /\ last.out.raised = NoExc

\* C5 as stated: the wrapped update() sends a notification exactly when the
\* update makes the challenge become visible.
C5_SendsExactlyWhenBecomesVisible ==
  (last.op = "update" /\ last.depth >= 1 /\ ~last.orig.raises) =>
     (NumPosts >= 1 <=> BecameVisible)

\* C5 amended: the wrapped update() sends a notification only when the
\* update makes the challenge become visible, and then does send it when
\* the Telegram configuration is valid and no notification step fails.
C5_SendsOnlyWhenBecomesVisible ==
  (last.op = "update" /\ last.depth >= 1) =>
     /\ NumPosts >= 1 => (BecameVisible /\ ~last.orig.raises)
     /\ (BecameVisible /\ ~last.orig.raises /\ ValidNow /\ last.faults = {})
           => NumPosts >= 1

C5_Witness ==
  /\ last.op = "update" /\ last.depth >= 1 /\ BecameVisible
  /\ ValidNow /\ last.faults = {} /\ NumPosts >= 1

\* "Set", as from_app reads each source: a flag is set when it is present,
\* a token or chat id when it is present and not empty.
FirstSet(a, b, c) == IF Truthy(a) THEN a ELSE IF Truthy(b) THEN b ELSE c
FirstPresent(a, b, c) == IF a # NONE THEN a ELSE IF b # NONE THEN b ELSE c

\* C6: from_app takes each of enabled, bot_token and chat_id from the config
\* table when it is set there, otherwise from the environment when set
\* there, otherwise from app.config.
C6_ConfigPriority ==
  (last.op = "from_app" /\ last.out.raised = NoExc) =>
     /\ last.out.enabled =
          (Lower(FirstPresent(cfg.telegram_enabled, env.enabled,
                              IF appcfg.enabled = NONE THEN "False"
                              ELSE appcfg.enabled)) \in EnabledWords)
     /\ last.out.bot_token =
          FirstSet(cfg.telegram_bot_token, env.bot_token, appcfg.bot_token)
     /\ last.out.chat_id =
          FirstSet(cfg.telegram_chat_id, env.chat_id, appcfg.chat_id)

\* All three sources hold a token, the table's flag says off while the
\* environment says on: the table wins both.
C6_Witness ==
  /\ last.op = "from_app" /\ last.out.raised = NoExc
  /\ cfg.telegram_bot_token = "tok" /\ env.bot_token = "envtok"
  /\ appcfg.bot_token = "apptok" /\ last.out.bot_token = "tok"
  /\ cfg.telegram_enabled = "off" /\ env.enabled = "TRUE"
  /\ ~last.out.enabled

\* The method an operation re-binds.
Target(op) ==
  CASE op = "load" -> "create"
    [] op = "wrap_update" -> "update"
    [] op = "wrap_solve" -> "solve"
    [] OTHER -> "none"

\* What a call through a wrapper looks like from outside.
WrappedCallShape ==
  (last.op \in {"create", "update", "solve"} /\ last.depth >= 1) =>
     /\ NumOrig = 1
     /\ Head(last.out.events) = OrigEvent(last.op, last.arg)
     /\ last.orig.raises => (last.out.raised = "HostError" /\ NumPosts = 0)

\* C7: re-binding changes only the targeted method of the class; a call of
\* the wrapper invokes the original exactly once, with the same arguments,
\* before any message is sent; if the original raises, the exception
\* propagates and no message is sent.
C7_WrapperInvokesOriginalOnceFirst ==
  [][ /\ \A t \in DOMAIN CHALLENGE_CLASSES : \A m \in Methods :
           CHALLENGE_CLASSES'[t][m] # CHALLENGE_CLASSES[t][m] =>
              /\ m = Target(last'.op)
              /\ CHALLENGE_CLASSES'[t][m] = CHALLENGE_CLASSES[t][m] + 1
      /\ DOMAIN CHALLENGE_CLASSES' = DOMAIN CHALLENGE_CLASSES
      /\ WrappedCallShape' ]_vars

\* A wrapped solve that called the original and then posted a message.
C7_Witness ==
  /\ last.op = "solve" /\ last.depth >= 1
  /\ NumPosts >= 1 /\ Len(last.out.events) >= 2

\* The nonce check of the admin form, as a request fails it.
BadNonce(form) ==
  \/ form.nonce \in {NONE, ""}
  \/ form.nonce # (IF session = NONE THEN "" ELSE session)

\* C8: a POST whose nonce is empty or differs from the session nonce
\* changes no configuration key and is answered with a redirect; the
\* configuration changes only on a POST whose nonce is non-empty and equal
\* to the session nonce.
C8_BadNonceChangesNothing ==
  [][ last'.op \in {"config_view", "init_config_view"} =>
        /\ (last'.arg.method = "POST" /\ BadNonce(last'.arg.form)) =>
              (cfg' = cfg /\ last'.out.status = 302)
        /\ cfg' # cfg =>
              (last'.arg.method = "POST" /\ ~BadNonce(last'.arg.form)) ]_vars

\* A POST with a wrong nonce that would have switched the saved flag off.
C8_Witness ==
  /\ last.op = "config_view" /\ last.arg.method = "POST"
  /\ last.out.status = 302
  /\ last.arg.form.nonce = "n2" /\ session = "n1"
  /\ cfg.telegram_enabled = "on" /\ last.arg.form.enabled = NONE

====
